---------------------------- MODULE Spec2Model ----------------------------
(***************************************************************************)
(* Entity-relation graph construction of the ICT scripts:                  *)
(*   scripts/synonyms_terminology.py   (synonym map)                       *)
(*   scripts/qa_QA_ner_graph.py        (undirected co-occurrence graph)    *)
(*   scripts/relation_extraction_graph.py (directed relation graph)        *)
(* Python strings are modelled as sequences of one-character strings, so   *)
(* that strip, lower, startswith and slicing are computed, not assumed.    *)
(***************************************************************************)
EXTENDS Integers, Sequences, FiniteSets, TLC

(***************************************************************************)
(* Bounds of the model.                                                    *)
(***************************************************************************)
MaxPieces == 3      \* a raw string is a concatenation of at most this many pieces
MaxUnits == 2       \* Q&A pairs in qa_list
NumColours == 2     \* colours drawn by random.randint stand in 0..NumColours-1
MaxTokens == 4      \* tokens of a parse given to dependency_distance
MaxTriples == 3     \* triples given to build_rdf_graph
MaxParas == 3       \* paragraphs of the document given to load_qa_from_docx

(***************************************************************************)
(* Python str operations.                                                  *)
(***************************************************************************)
UpperLetters ==
  <<"A","B","C","D","E","F","G","H","I","J","K","L","M",
    "N","O","P","Q","R","S","T","U","V","W","X","Y","Z">>

LowerLetters ==
  <<"a","b","c","d","e","f","g","h","i","j","k","l","m",
    "n","o","p","q","r","s","t","u","v","w","x","y","z">>

Whitespace == {" ", "\t", "\n"}

ToLower ==
  [c \in { UpperLetters[i] : i \in 1..26 } |->
     LowerLetters[CHOOSE i \in 1..26 : UpperLetters[i] = c]]

LowerChar(c) == IF c \in DOMAIN ToLower THEN ToLower[c] ELSE c

lower(s) == [i \in 1..Len(s) |-> LowerChar(s[i])]

RECURSIVE lstrip(_)
lstrip(s) ==
  IF s # <<>> /\ Head(s) \in Whitespace THEN lstrip(Tail(s)) ELSE s

RECURSIVE rstrip(_)
rstrip(s) ==
  IF s # <<>> /\ s[Len(s)] \in Whitespace
  THEN rstrip(SubSeq(s, 1, Len(s) - 1))
  ELSE s

strip(s) == rstrip(lstrip(s))

startswith(s, prefix) ==
  /\ Len(s) >= Len(prefix)
  /\ SubSeq(s, 1, Len(prefix)) = prefix

\* s[n:]
SliceFrom(s, n) == SubSeq(s, n + 1, Len(s))

(***************************************************************************)
(* Python dict operations (a dict is a function on its set of keys).       *)
(***************************************************************************)
EmptyDict == [k \in {} |-> <<>>]

dict_set(d, k, v) == [x \in (DOMAIN d) \cup {k} |-> IF x = k THEN v ELSE d[x]]

dict_get(d, k, default) == IF k \in DOMAIN d THEN d[k] ELSE default

\* dict(pairs): later pairs override earlier ones
RECURSIVE dict_of(_)
dict_of(pairs) ==
  IF pairs = <<>> THEN EmptyDict
  ELSE LET n == Len(pairs)
       IN dict_set(dict_of(SubSeq(pairs, 1, n - 1)), pairs[n][1], pairs[n][2])

(***************************************************************************)
(* synonyms_terminology.py                                                 *)
(***************************************************************************)
PREFER_ABBREVIATION == TRUE

manual_synonyms ==
  << << <<"A","r","t","i","f","i","c","i","a","l"," ","I","n","t","e","l","l","i","g","e","n","c","e">>,
        <<"A","I">> >>,
     << <<"A","I">>,
        <<"A","I">> >>,
     << <<"M","a","c","h","i","n","e"," ","L","e","a","r","n","i","n","g">>,
        <<"M","L">> >>,
     << <<"M","L">>,
        <<"M","L">> >>,
     << <<"N","a","t","u","r","a","l"," ","L","a","n","g","u","a","g","e"," ","P","r","o","c","e","s","s","i","n","g">>,
        <<"N","L","P">> >>,
     << <<"N","L","P">>,
        <<"N","L","P">> >>,
     << <<"C","u","s","t","o","m","e","r"," ","S","a","t","i","s","f","a","c","t","i","o","n">>,
        <<"C","S","A","T">> >>,
     << <<"C","S","A","T">>,
        <<"C","S","A","T">> >>,
     << <<"C","u","s","t","o","m","e","r"," ","E","f","f","o","r","t"," ","S","c","o","r","e">>,
        <<"C","E","S">> >>,
     << <<"C","E","S">>,
        <<"C","E","S">> >>,
     << <<"N","e","t"," ","P","r","o","m","o","t","e","r"," ","S","c","o","r","e">>,
        <<"N","P","S">> >>,
     << <<"N","P","S">>,
        <<"N","P","S">> >>,
     << <<"T","r","a","c","k"," ","N","P","S">>,
        <<"N","P","S">> >>,
     << <<"I","n","t","e","r","n","e","t"," ","o","f"," ","T","h","i","n","g","s">>,
        <<"I","o","T">> >>,
     << <<"I","o","T">>,
        <<"I","o","T">> >>,
     << <<"S","t","r","u","c","t","u","r","e","d"," ","Q","u","e","r","y"," ","L","a","n","g","u","a","g","e">>,
        <<"S","Q","L">> >>,
     << <<"S","Q","L">>,
        <<"S","Q","L">> >>,
     << <<"u","s">>,
        <<"U","S","A">> >>,
     << <<"u","s","a">>,
        <<"U","S","A">> >>,
     << <<"t","h","e"," ","c","a","l","i","f","o","r","n","i","a"," ","c","o","n","s","u","m","e","r"," ","p","r","i","v","a","c","y"," ","a","c","t">>,
        <<"C","P","R","A">> >>,
     << <<"c","p","r","a">>,
        <<"C","P","R","A">> >>,
     << <<"t","h","e"," ","e","u","r","o","p","e","a","n"," ","d","a","t","a"," ","p","r","o","t","e","c","t","i","o","n"," ","b","o","a","r","d">>,
        <<"E","D","P","B">> >>,
     << <<"e","d","p","b">>,
        <<"E","D","P","B">> >> >>

\* One iteration of "for full_form, acronym in match1" / "for acronym,
\* full_form in match2": both regexes yield an (acronym, full form) pair.
add_pair(synonym_map, full_form, acronym) ==
  LET canonical == IF PREFER_ABBREVIATION THEN acronym ELSE full_form
  IN dict_set(dict_set(synonym_map, lower(full_form), canonical),
              lower(acronym), canonical)

RECURSIVE add_pairs(_, _)
add_pairs(synonym_map, matches) ==
  IF matches = <<>> THEN synonym_map
  ELSE add_pairs(add_pair(synonym_map, matches[1].full_form, matches[1].acronym),
                 Tail(matches))

\* A paragraph is given by what the two regexes find in it:
\* match1 for "Full form (ACRONYM)", match2 for "ACRONYM (Full form)".
RECURSIVE add_paragraphs(_, _)
add_paragraphs(synonym_map, paragraphs) ==
  IF paragraphs = <<>> THEN synonym_map
  ELSE add_paragraphs(
         add_pairs(add_pairs(synonym_map, paragraphs[1].match1),
                   paragraphs[1].match2),
         Tail(paragraphs))

build_synonym_map(doc) == add_paragraphs(dict_of(manual_synonyms), doc)

\* INPUT_FILE: absent, or a document given by its paragraphs
Missing == "missing"

get_synonym_map(input_file) ==
  IF input_file = Missing THEN EmptyDict ELSE build_synonym_map(input_file)

(***************************************************************************)
(* normalize_entity (identical in both graph scripts)                      *)
(***************************************************************************)
\* variant: the cleaned text is returned lower-cased when it has no synonym
normalize_entity_lowercased(synonym_map, ent_text) ==
  LET stripped == strip(ent_text)
      ent_clean == IF startswith(lower(stripped), <<"t","h","e"," ">>)
                   THEN SliceFrom(stripped, 4)
                   ELSE stripped
  IN dict_get(synonym_map, lower(ent_clean), lower(ent_clean))

normalize_entity(synonym_map, ent_text) ==
  LET stripped == strip(ent_text)
      ent_clean == IF startswith(lower(stripped), <<"t","h","e"," ">>)
                   THEN SliceFrom(stripped, 4)
                   ELSE stripped
  IN dict_get(synonym_map, lower(ent_clean), ent_clean)

(***************************************************************************)
(* The NLP oracle.  nlp(text_block) is given by what the scripts read of   *)
(* it: per token its head, sentence and lemma; doc.ents in document order; *)
(* and, for every custom_pattern match whose own nlp(match) has entities,  *)
(* the first entity of that separate one-token document.  A unit is one    *)
(* (q, a) pair of qa_list, given by the parse of f"{q} {a}".               *)
(*   unit.head[i], unit.sent[i], unit.lemma[i]   token i of the document   *)
(*   unit.ents[k] = [text, label_, root]         doc.ents                  *)
(*   unit.gazetteer[k] = [text, label_]          nlp(match).ents[0]        *)
(*   unit.raises                                 tokens whose traversal    *)
(*                                               raises an exception       *)
(* A span is [text, label_, doc, root, sent]; doc 0 is the document of the *)
(* unit, doc k > 0 the document of the k-th gazetteer match.  Spans and    *)
(* tokens of different documents are never equal.                          *)
(***************************************************************************)
MAX_DEP_DISTANCE == 3

\* the None returned by dependency_distance
None == -1

ALLOWED_LABELS == {"ORG", "PRODUCT", "GPE", "LAW", "EVENT", "TECHNOLOGY"}

RELATION_PATTERNS ==
  << << "is_a",
        { <<"b","e">>,
         <<"i","s">>,
         <<"a","r","e">>,
         <<"w","a","s">>,
         <<"w","e","r","e">>,
         <<"c","o","n","s","t","i","t","u","t","e">>,
         <<"r","e","p","r","e","s","e","n","t">> } >>,
     << "regulates",
        { <<"r","e","g","u","l","a","t","e">>,
         <<"g","o","v","e","r","n">>,
         <<"c","o","n","t","r","o","l">>,
         <<"o","v","e","r","s","e","e">>,
         <<"e","n","f","o","r","c","e">>,
         <<"d","i","c","t","a","t","e">>,
         <<"m","a","n","a","g","e">> } >>,
     << "uses",
        { <<"u","s","e">>,
         <<"u","t","i","l","i","z","e">>,
         <<"a","p","p","l","y">>,
         <<"e","m","p","l","o","y">>,
         <<"l","e","v","e","r","a","g","e">> } >>,
     << "based_on",
        { <<"b","a","s","e">>,
         <<"b","u","i","l","d">>,
         <<"d","e","r","i","v","e">>,
         <<"d","e","p","e","n","d">>,
         <<"d","e","v","e","l","o","p">> } >>,
     << "part_of",
        { <<"p","a","r","t">>,
         <<"c","o","m","p","o","n","e","n","t">>,
         <<"e","l","e","m","e","n","t">>,
         <<"s","e","g","m","e","n","t">>,
         <<"m","e","m","b","e","r">>,
         <<"b","e","l","o","n","g">> } >> >>

Tokens(unit) == 1..Len(unit.head)

DocSpan(unit, k) ==
  [text |-> unit.ents[k].text, label_ |-> unit.ents[k].label_, doc |-> 0,
   root |-> unit.ents[k].root, sent |-> unit.sent[unit.ents[k].root]]

GazetteerSpan(unit, k) ==
  [text |-> unit.gazetteer[k].text, label_ |-> unit.gazetteer[k].label_,
   doc |-> k, root |-> 1, sent |-> 1]

\* doc.ents
doc_ents(unit) == [k \in 1..Len(unit.ents) |-> DocSpan(unit, k)]

\* ent.sent and ent.root
SentOf(span) == [doc |-> span.doc, s |-> span.sent]

RootOf(span) == [doc |-> span.doc, i |-> span.root]

(***************************************************************************)
(* Sequence helpers.                                                       *)
(***************************************************************************)
RECURSIVE Flatten(_)
Flatten(ss) == IF ss = <<>> THEN <<>> ELSE Head(ss) \o Flatten(Tail(ss))

RECURSIVE SortedSeq(_)
SortedSeq(S) ==
  IF S = {} THEN <<>>
  ELSE LET m == CHOOSE x \in S : \A y \in S : x <= y
       IN <<m>> \o SortedSeq(S \ {m})

\* for i in range(n): for j in range(i + 1, n)  /  combinations(range(n), 2)
combinations(n) ==
  Flatten([i \in 1..n |-> [d \in 1..(n - i) |-> <<i, i + d>>]])

\* every order in which the elements of a set can be listed
Orderings(S) ==
  LET n == Cardinality(S)
  IN { lst \in [1..n -> S] : \A i \in 1..n : \A j \in (i + 1)..n : lst[i] # lst[j] }

(***************************************************************************)
(* dependency_distance (identical in both graph scripts)                   *)
(***************************************************************************)
\* list(node.children)
\* variant: only the head link is followed
children_none(unit, node) == <<>>

children(unit, node) ==
  IF node.doc = 0
  THEN LET cs == SortedSeq({ j \in Tokens(unit) : unit.head[j] = node.i /\ j # node.i })
       IN [k \in 1..Len(cs) |-> [doc |-> 0, i |-> cs[k]]]
  ELSE <<>>

\* node.head
head(unit, node) ==
  IF node.doc = 0 THEN [doc |-> 0, i |-> unit.head[node.i]] ELSE node

Raises(unit, node) == node.doc = 0 /\ node.i \in unit.raises

\* variant: the handler returns 0
RECURSIVE bfs_zero_on_error(_, _, _, _)
bfs_zero_on_error(unit, queue, visited, token2) ==
  IF queue = <<>> THEN None
  ELSE LET node == queue[1][1]
           dist == queue[1][2]
       IN IF node = token2 THEN dist
          ELSE IF Raises(unit, node) THEN 0
          ELSE LET visited1 == visited \cup {node}
                   neighbors == children(unit, node) \o
                                (IF head(unit, node) # node
                                 THEN <<head(unit, node)>> ELSE <<>>)
                   fresh == SelectSeq(neighbors, LAMBDA n : n \notin visited1)
               IN bfs_zero_on_error(unit,
                      Tail(queue) \o [k \in 1..Len(fresh) |-> <<fresh[k], dist + 1>>],
                      visited1, token2)

RECURSIVE bfs(_, _, _, _)
bfs(unit, queue, visited, token2) ==
  IF queue = <<>> THEN None
  ELSE LET node == queue[1][1]
           dist == queue[1][2]
       IN IF node = token2 THEN dist
          ELSE IF Raises(unit, node) THEN None      \* except Exception
          ELSE LET visited1 == visited \cup {node}
                   neighbors == children(unit, node) \o
                                (IF head(unit, node) # node
                                 THEN <<head(unit, node)>> ELSE <<>>)
                   fresh == SelectSeq(neighbors, LAMBDA n : n \notin visited1)
               IN bfs(unit,
                      Tail(queue) \o [k \in 1..Len(fresh) |-> <<fresh[k], dist + 1>>],
                      visited1, token2)

dependency_distance(unit, token1, token2) ==
  bfs(unit, << <<token1, 0>> >>, {}, token2)

\* variant: dist < MAX_DEP_DISTANCE
WithinDistance_exclusive(dist) == dist # None /\ dist < MAX_DEP_DISTANCE

\* dist is not None and dist <= MAX_DEP_DISTANCE
WithinDistance(dist) == dist # None /\ dist <= MAX_DEP_DISTANCE

(***************************************************************************)
(* extract_entities and the per-unit deduplication                         *)
(***************************************************************************)
\* The set built by extract_entities; list(ents) lists it in some order.
extract_entities(unit) ==
  { DocSpan(unit, k) : k \in { x \in 1..Len(unit.ents) :
                                 unit.ents[x].label_ \in ALLOWED_LABELS } }
  \cup { GazetteerSpan(unit, k) : k \in 1..Len(unit.gazetteer) }

\* variant: a key keeps the value of its first occurrence
dedupe_first_wins(lst) ==
  LET key(i) == strip(lst[i].text)
      first == SortedSeq({ i \in 1..Len(lst) : \A j \in 1..(i - 1) : key(j) # key(i) })
  IN [k \in 1..Len(first) |-> lst[first[k]]]

\* list({ent.text.strip(): ent for ent in ents}.values()): a key keeps the
\* position of its first occurrence and the value of its last one.
dedupe(lst) ==
  LET key(i) == strip(lst[i].text)
      first == SortedSeq({ i \in 1..Len(lst) : \A j \in 1..(i - 1) : key(j) # key(i) })
      last(i) == CHOOSE j \in 1..Len(lst) :
                   /\ key(j) = key(i)
                   /\ \A m \in 1..Len(lst) : key(m) = key(i) => m <= j
  IN [k \in 1..Len(first) |-> lst[last(first[k])]]

(***************************************************************************)
(* networkx Graph / DiGraph: G.nodes and the adjacency G.adj, a function   *)
(* from the pairs (u, v) that carry an edge to the edge's attribute.  An   *)
(* undirected edge is stored under (u, v) and (v, u).                      *)
(***************************************************************************)
EmptyGraph == [nodes |-> {}, adj |-> [p \in {} |-> <<>>]]

add_node(G, n) == [G EXCEPT !.nodes = @ \cup {n}]

\* variant: an edge that exists keeps the attribute it was first given
add_edge_keeping(G, directed, u, v, attr) ==
  LET keys == IF directed THEN { <<u, v>> } ELSE { <<u, v>>, <<v, u>> }
  IN [nodes |-> G.nodes \cup {u, v},
      adj |-> [p \in (DOMAIN G.adj) \cup keys |->
                 IF p \in DOMAIN G.adj THEN G.adj[p] ELSE attr]]

\* variant: the edge's source is also joined to every node already present
add_edge_to_all(G, directed, u, v, attr) ==
  LET targets == G.nodes \cup {v}
      keys == IF directed THEN { <<u, t>> : t \in targets }
              ELSE { <<u, t>> : t \in targets } \cup { <<t, u>> : t \in targets }
  IN [nodes |-> G.nodes \cup {u, v},
      adj |-> [p \in (DOMAIN G.adj) \cup keys |->
                 IF p \in keys THEN attr ELSE G.adj[p]]]

add_edge(G, directed, u, v, attr) ==
  LET keys == IF directed THEN { <<u, v>> } ELSE { <<u, v>>, <<v, u>> }
  IN [nodes |-> G.nodes \cup {u, v},
      adj |-> [p \in (DOMAIN G.adj) \cup keys |->
                 IF p \in keys THEN attr ELSE G.adj[p]]]

has_edge(G, u, v) == <<u, v>> \in DOMAIN G.adj

\* An insertion is [u, v, attr] (build_graph also records the index pair
\* (i, j) of the loop that made it); insertions are applied in order.
RECURSIVE add_edges(_, _, _)
add_edges(G, directed, insertions) ==
  IF insertions = <<>> THEN G
  ELSE add_edges(add_edge(G, directed, insertions[1].u, insertions[1].v,
                          insertions[1].attr),
                 directed, Tail(insertions))

\* variant: components that follow the direction of the edges
RECURSIVE ReachableAlong(_, _)
ReachableAlong(G, S) ==
  LET S1 == S \cup { n \in G.nodes : \E m \in S : has_edge(G, m, n) }
  IN IF S1 = S THEN S ELSE ReachableAlong(G, S1)

connected_components_directed(G) == { ReachableAlong(G, {n}) : n \in G.nodes }

\* nx.connected_components / nx.weakly_connected_components: the sets of
\* nodes reachable from one another when edge direction is ignored.
RECURSIVE Reachable(_, _)
Reachable(G, S) ==
  LET S1 == S \cup { n \in G.nodes :
                       \E m \in S : has_edge(G, m, n) \/ has_edge(G, n, m) }
  IN IF S1 = S THEN S ELSE Reachable(G, S1)

connected_components(G) == { Reachable(G, {n}) : n \in G.nodes }

(***************************************************************************)
(* build_graph (qa_QA_ner_graph.py): edges of one unit                     *)
(***************************************************************************)
StrongTitle(idx) == <<"Strong", MAX_DEP_DISTANCE, idx>>

WeakTitle(idx) == <<"Weak", idx>>

\* variant: the distance is checked for pairs of different sentences too
ner_pair_always_checked(unit, ents, ents_norm, idx, i, j) ==
  IF WithinDistance(dependency_distance(unit, RootOf(ents[i]), RootOf(ents[j])))
  THEN << [u |-> ents_norm[i], v |-> ents_norm[j],
           attr |-> IF SentOf(ents[i]) = SentOf(ents[j])
                    THEN StrongTitle(idx) ELSE WeakTitle(idx),
           pair |-> <<i, j>>] >>
  ELSE <<>>

\* body of the double loop for the pair (i, j): the edges it adds
ner_pair(unit, ents, ents_norm, idx, i, j) ==
  IF SentOf(ents[i]) = SentOf(ents[j])
  THEN IF WithinDistance(dependency_distance(unit, RootOf(ents[i]), RootOf(ents[j])))
       THEN << [u |-> ents_norm[i], v |-> ents_norm[j], attr |-> StrongTitle(idx),
                pair |-> <<i, j>>] >>
       ELSE <<>>
  ELSE << [u |-> ents_norm[i], v |-> ents_norm[j], attr |-> WeakTitle(idx),
           pair |-> <<i, j>>] >>

ner_edges(unit, ents, ents_norm, idx) ==
  LET pairs == combinations(Len(ents_norm))
  IN Flatten([k \in 1..Len(pairs) |->
                ner_pair(unit, ents, ents_norm, idx, pairs[k][1], pairs[k][2])])

(***************************************************************************)
(* relation_extraction_graph.py                                            *)
(***************************************************************************)
\* doc.sents, in document order
sents(unit) == SortedSeq({ unit.sent[i] : i \in Tokens(unit) })

\* sent.ents: the entities of the document that lie in the sentence
sent_ents(unit, s) == SelectSeq(doc_ents(unit), LAMBDA e : e.sent = s)

\* variant: the lemma is compared without lower()
token_relations_case_sensitive(unit, ents_in_sent, token, entry) ==
  IF unit.lemma[token] \in entry[2]
  THEN LET pairs == combinations(Len(ents_in_sent))
       IN Flatten([k \in 1..Len(pairs) |->
            LET e1 == ents_in_sent[pairs[k][1]]
                e2 == ents_in_sent[pairs[k][2]]
            IN IF WithinDistance(dependency_distance(unit, RootOf(e1), RootOf(e2)))
               THEN << <<e1.text, entry[1], e2.text>> >>
               ELSE <<>>])
  ELSE <<>>

\* variant: the relation is appended as (e2, rel, e1)
token_relations_reversed(unit, ents_in_sent, token, entry) ==
  IF lower(unit.lemma[token]) \in entry[2]
  THEN LET pairs == combinations(Len(ents_in_sent))
       IN Flatten([k \in 1..Len(pairs) |->
            LET e1 == ents_in_sent[pairs[k][1]]
                e2 == ents_in_sent[pairs[k][2]]
            IN IF WithinDistance(dependency_distance(unit, RootOf(e1), RootOf(e2)))
               THEN << <<e2.text, entry[1], e1.text>> >>
               ELSE <<>>])
  ELSE <<>>

\* "for token in sent" x "for rel_label, verbs in patterns.items()": the
\* relations appended for one token and one table entry
token_relations(unit, ents_in_sent, token, entry) ==
  IF lower(unit.lemma[token]) \in entry[2]
  THEN LET pairs == combinations(Len(ents_in_sent))
       IN Flatten([k \in 1..Len(pairs) |->
            LET e1 == ents_in_sent[pairs[k][1]]
                e2 == ents_in_sent[pairs[k][2]]
            IN IF WithinDistance(dependency_distance(unit, RootOf(e1), RootOf(e2)))
               THEN << <<e1.text, entry[1], e2.text>> >>
               ELSE <<>>])
  ELSE <<>>

extract_relations_in_sentence(patterns, unit, s) ==
  LET ents_in_sent == sent_ents(unit, s)
      toks == SortedSeq({ i \in Tokens(unit) : unit.sent[i] = s })
  IN IF Len(ents_in_sent) < 2 THEN <<>>
     ELSE Flatten([t \in 1..Len(toks) |->
            Flatten([k \in 1..Len(patterns) |->
              token_relations(unit, ents_in_sent, toks[t], patterns[k])])])

\* "Strong edges": the insertions of the sentence loop of one unit
strong_edges(synonym_map, unit) ==
  LET ss == sents(unit)
      rels == Flatten([k \in 1..Len(ss) |->
                extract_relations_in_sentence(RELATION_PATTERNS, unit, ss[k])])
  IN [k \in 1..Len(rels) |->
        [u |-> normalize_entity(synonym_map, rels[k][1]),
         v |-> normalize_entity(synonym_map, rels[k][3]),
         attr |-> rels[k][2]]]

\* variant: the co_occurs edge is added without asking G.has_edge
RECURSIVE weak_pass_unguarded(_, _, _, _)
weak_pass_unguarded(G, ents_all, ents_norm, pairs) ==
  IF pairs = <<>> THEN G
  ELSE LET i == pairs[1][1]
           j == pairs[1][2]
           G1 == IF SentOf(ents_all[i]) # SentOf(ents_all[j])
                 THEN add_edge(G, TRUE, ents_norm[i], ents_norm[j], "co_occurs")
                 ELSE G
       IN weak_pass_unguarded(G1, ents_all, ents_norm, Tail(pairs))

\* "Weak edges": the double loop over ents_norm, each co_occurs edge added
\* only if G has no edge for the ordered pair at that moment
RECURSIVE weak_pass(_, _, _, _)
weak_pass(G, ents_all, ents_norm, pairs) ==
  IF pairs = <<>> THEN G
  ELSE LET i == pairs[1][1]
           j == pairs[1][2]
           G1 == IF /\ SentOf(ents_all[i]) # SentOf(ents_all[j])
                    /\ ~has_edge(G, ents_norm[i], ents_norm[j])
                 THEN add_edge(G, TRUE, ents_norm[i], ents_norm[j], "co_occurs")
                 ELSE G
       IN weak_pass(G1, ents_all, ents_norm, Tail(pairs))

\* the G.add_edge calls the co-occurrence loop performs, in loop order
RECURSIVE weak_insertions(_, _, _, _)
weak_insertions(G, ents_all, ents_norm, pairs) ==
  IF pairs = <<>> THEN <<>>
  ELSE LET i == pairs[1][1]
           j == pairs[1][2]
           made == IF /\ SentOf(ents_all[i]) # SentOf(ents_all[j])
                      /\ ~has_edge(G, ents_norm[i], ents_norm[j])
                   THEN << [u |-> ents_norm[i], v |-> ents_norm[j],
                            attr |-> "co_occurs"] >>
                   ELSE <<>>
       IN made \o weak_insertions(add_edges(G, TRUE, made), ents_all,
                                  ents_norm, Tail(pairs))

(***************************************************************************)
(* Inputs of the model.                                                    *)
(***************************************************************************)
\* Documents the synonym map is built from, as the matches of the two
\* regexes of build_synonym_map in each paragraph.
DocAcronyms ==
  << [match1 |-> << [full_form |-> <<"A","r","t","i","f","i","c","i","a","l"," ",
                                    "I","n","t","e","l","l","i","g","e","n","c","e">>,
                     acronym |-> <<"A","I">>] >>,
      match2 |-> << [full_form |-> <<"M","a","c","h","i","n","e"," ",
                                    "L","e","a","r","n","i","n","g">>,
                     acronym |-> <<"M","L">>] >>],
     [match1 |-> << [full_form |-> <<"U","S","A">>,
                     acronym |-> <<"N","A">>] >>,
      match2 |-> <<>>] >>

InputFiles == {Missing, DocAcronyms}

\* Raw strings: concatenations of at most MaxPieces pieces.
Pieces ==
  { <<" ">>, <<"\t">>,
    <<"t","h","e"," ">>, <<"T","h","E"," ">>, <<"t","h","e">>,
    <<"A","I">>, <<"a","i">>, <<"u","s">>, <<"U","S","A">> }

RECURSIVE RawOfPieces(_)
RawOfPieces(n) ==
  IF n = 0 THEN { <<>> }
  ELSE { p \o r : p \in Pieces, r \in RawOfPieces(n - 1) }

RawInputs == UNION { RawOfPieces(n) : n \in 0..MaxPieces }

\* Entity texts and the label the recogniser gives each of them.
TextAI == <<"A","I">>

TextUSA == <<"U","S","A">>

TextTheUSA == <<"T","h","e"," ","U","S","A">>

TextBob == <<"B","o","b">>

LabelOf(text) ==
  IF text = TextAI THEN "ORG"
  ELSE IF text = TextBob THEN "PERSON"
  ELSE "GPE"

\* Parses: a chain of five tokens in one sentence (token distances 0..4),
\* and two sentences of three and two tokens.
ParseChain == [head |-> <<1, 1, 2, 3, 4>>, sent |-> <<1, 1, 1, 1, 1>>]

ParseTwo == [head |-> <<2, 2, 2, 4, 4>>, sent |-> <<1, 1, 1, 2, 2>>]

\* Where the entities of a document sit (their root tokens) ...
Layouts ==
  { <<ParseTwo, <<5>>>>,
    <<ParseChain, <<1, 4>>>>,
    <<ParseTwo, <<1, 3>>>>, <<ParseTwo, <<3, 5>>>>,
    <<ParseChain, <<1, 4, 5>>>>, <<ParseTwo, <<1, 3, 5>>>> }

\* ... and their texts, in document order.
TextSeqs ==
  { <<TextAI>>,
    <<TextAI, TextUSA>>, <<TextUSA, TextTheUSA>>, <<TextAI, TextBob>>,
    <<TextAI, TextUSA, TextAI>>, <<TextAI, TextUSA, TextTheUSA>> }

\* Lemmas of tokens 2 and 3 (the other tokens have no trigger lemma).
LemmaStore == <<"s","t","o","r","e">>

LemmaPairs ==
  { <<LemmaStore, LemmaStore>>,
    << <<"U","s","e">>, <<"r","e","g","u","l","a","t","e">> >> }

Gazetteers == { <<>>, << [text |-> TextAI, label_ |-> "ORG"] >> }

MakeUnit(layout, texts, lemmas, gazetteer, raises) ==
  [head |-> layout[1].head,
   sent |-> layout[1].sent,
   lemma |-> <<LemmaStore, lemmas[1], lemmas[2], LemmaStore, LemmaStore>>,
   ents |-> [k \in 1..Len(texts) |->
               [text |-> texts[k], label_ |-> LabelOf(texts[k]), root |-> layout[2][k]]],
   gazetteer |-> gazetteer,
   raises |-> raises]

LayoutTexts == { lt \in Layouts \X TextSeqs : Len(lt[1][2]) = Len(lt[2]) }

Units ==
  { MakeUnit(lt[1], lt[2], lemmas, gazetteer, {}) :
      lt \in LayoutTexts, lemmas \in LemmaPairs, gazetteer \in Gazetteers }
  \cup
  { MakeUnit(<<ParseChain, <<1, 4>>>>, <<TextAI, TextUSA>>, lemmas, <<>>, {2}) :
      lemmas \in LemmaPairs }
  \cup
  { MakeUnit(<<ParseChain, <<1, 4, 5>>>>, <<TextAI, TextUSA, TextTheUSA>>,
             <<LemmaStore, LemmaStore>>, <<>>, {2}) }

NoUnit ==
  [head |-> <<>>, sent |-> <<>>, lemma |-> <<>>, ents |-> <<>>,
   gazetteer |-> <<>>, raises |-> {}]

Colours == 0..(NumColours - 1)

\* Pattern tables: the table of the script, and a table in which the lemma
\* "use" is a trigger of two kinds.
OverlappingPatterns ==
  [k \in 1..Len(RELATION_PATTERNS) |->
     IF RELATION_PATTERNS[k][1] = "based_on"
     THEN <<"based_on", RELATION_PATTERNS[k][2] \cup { <<"u","s","e">> }>>
     ELSE RELATION_PATTERNS[k]]

PatternTables == { RELATION_PATTERNS, OverlappingPatterns }

(***************************************************************************)
(* load_qa_from_docx (the same text in both graph scripts).                *)
(***************************************************************************)
\* text.lower().startswith("q:") or text.lower().startswith("question")
is_question(text) ==
  \/ startswith(lower(text), <<"q",":">>)
  \/ startswith(lower(text), <<"q","u","e","s","t","i","o","n">>)

\* text.lower().startswith("a:") or text.lower().startswith("answer")
is_answer(text) ==
  \/ startswith(lower(text), <<"a",":">>)
  \/ startswith(lower(text), <<"a","n","s","w","e","r">>)

\* [p.text.strip() for p in doc.paragraphs if p.text.strip()]
stripped_paragraphs(paragraphs) ==
  SelectSeq([k \in 1..Len(paragraphs) |-> strip(paragraphs[k])],
            LAMBDA text : text # <<>>)

has_labels(texts) == \E k \in 1..Len(texts) : is_question(texts[k])

\* current_q is None (an empty text is as false as None in if current_q)
NoQuestion == <<>>

\* variant: the pending question is kept after a pair is emitted
scan_keeping_question(pending, pairs, text) ==
  IF is_question(text) THEN [current_q |-> text, qa_list |-> pairs]
  ELSE IF is_answer(text)
  THEN IF pending # <<>>
       THEN [current_q |-> pending, qa_list |-> Append(pairs, <<pending, text>>)]
       ELSE [current_q |-> pending, qa_list |-> pairs]
  ELSE [current_q |-> pending, qa_list |-> pairs]

\* the body of the labelled loop for one paragraph
scan(pending, pairs, text) ==
  IF is_question(text) THEN [current_q |-> text, qa_list |-> pairs]
  ELSE IF is_answer(text)
  THEN IF pending # <<>>
       THEN [current_q |-> NoQuestion, qa_list |-> Append(pairs, <<pending, text>>)]
       ELSE [current_q |-> pending, qa_list |-> pairs]
  ELSE [current_q |-> pending, qa_list |-> pairs]

\* the unlabelled loop: for i in range(0, len(paras), 2)
alternate(texts) ==
  [k \in 1..(Len(texts) \div 2) |-> <<texts[2 * k - 1], texts[2 * k]>>]

\* paragraph texts of the documents
ParaTexts ==
  { <<"Q",":"," ","x">>, <<"q","u","e","s","t","i","o","n"," ","y">>,
    <<"A",":"," ","z">>, <<" ","a","n","s","w","e","r"," ","w">>,
    <<"n","o","t","e">>, <<" ">>, <<"Q",":"," ","x"," ">> }

Documents == UNION { [1..n -> ParaTexts] : n \in 0..MaxParas }

VARIABLES
  pc,             \* position of the run
  synonym_map,    \* synonyms_terminology.synonym_map, built on import
  ent_text,       \* argument of the first normalize_entity call
  results,        \* results of successive normalize_entity calls
  script,         \* "ner": qa_QA_ner_graph.py, "rel": relation_extraction_graph.py
  idx,            \* number of units of qa_list taken so far
  unit,           \* the unit of the current iteration
  ents_raw,       \* list(ents) as extract_entities returned it
  ents,           \* ents / ents_all: the deduplicated mentions of the unit
  ents_norm,      \* their normalized labels
  all_entities,   \* all_entities
  G,              \* the graph
  log,            \* the G.add_edge calls made for the unit so far, in order
  cluster_colors, \* cluster_colors
  extracted,      \* history: labels of the deduplicated mentions so far
  patterns,       \* the pattern table given to extract_relations_in_sentence
  relations,      \* the relations it returned
  endpoints,      \* token1, token2 given to dependency_distance
  distance,       \* the value it returned
  files,          \* INPUT_FILE and QA_FILE on disk: a document or Missing
  returned,       \* what build_graph / build_graph_with_relations returned
  triples,        \* KG.py: the triples build_rdf_graph has still to add
  g,              \* KG.py: the RDF graph g
  response,       \* KG.py: what the last Wikidata request produced
  paragraphs,     \* load_qa_from_docx: texts of doc.paragraphs
  paras,          \* paras
  pos,            \* number of elements of paras the loop has taken
  current_q,      \* current_q
  qa_list         \* qa_list

vars == <<pc, synonym_map, ent_text, results, script, idx, unit, ents_raw,
          ents, ents_norm, all_entities, G, log, cluster_colors, extracted,
          patterns, relations, endpoints, distance, files, returned,
          triples, g, response, paragraphs, paras, pos, current_q, qa_list>>

norm_vars == <<ent_text, results>>

graph_vars == <<script, idx, unit, ents_raw, ents, ents_norm, all_entities,
                G, log, cluster_colors, extracted>>

rel_vars == <<patterns, relations>>

dist_vars == <<endpoints, distance>>

run_vars == <<files, returned>>

kg_vars == <<triples, g, response>>

qa_vars == <<paragraphs, paras, pos, current_q, qa_list>>

QaIdle ==
  /\ paragraphs = <<>> /\ paras = <<>> /\ pos = 0
  /\ current_q = NoQuestion /\ qa_list = <<>>

NoResponse == [kind |-> "none"]

KgIdle == triples = <<>> /\ g = {} /\ response = NoResponse

Present == "present"

NotReturned == <<>>

NoFiles == [input |-> Missing, qa |-> Missing]

RunIdle == files = NoFiles /\ returned = NotReturned

\* Path.exists()
exists(file) == file # Missing

NormIdle == ent_text = <<>> /\ results = <<>>

RelIdle == patterns = <<>> /\ relations = <<>>

DistIdle == endpoints = <<>> /\ distance = None

GraphIdle ==
  /\ idx = 0 /\ unit = NoUnit /\ ents_raw = <<>> /\ ents = <<>> /\ ents_norm = <<>>
  /\ all_entities = {} /\ G = EmptyGraph /\ log = <<>>
  /\ cluster_colors = EmptyDict /\ extracted = {}

(***************************************************************************)
(* normalize_entity applied to a raw string, then to its own result.       *)
(***************************************************************************)
InitNorm ==
  /\ KgIdle
  /\ QaIdle
  /\ pc = "normalize"
  /\ RunIdle
  /\ \E input_file \in InputFiles : synonym_map = get_synonym_map(input_file)
  /\ ent_text \in RawInputs
  /\ results = <<>>
  /\ script = "none"
  /\ GraphIdle
  /\ RelIdle
  /\ DistIdle

NormalizeCall ==
  /\ pc = "normalize"
  /\ Len(results) < 2
  /\ results' = Append(results,
                  normalize_entity(synonym_map,
                    IF results = <<>> THEN ent_text ELSE results[Len(results)]))
  /\ UNCHANGED <<qa_vars, kg_vars, pc, synonym_map, ent_text, graph_vars, rel_vars, dist_vars,
                 run_vars>>

NextNorm == NormalizeCall

SpecNorm == InitNorm /\ [][NextNorm]_vars

(***************************************************************************)
(* A run of one graph script over qa_list.  The units of qa_list are drawn *)
(* one by one as the loop reaches them.                                    *)
(***************************************************************************)
Init ==
  /\ KgIdle
  /\ QaIdle
  /\ pc \in {"main.py", "script"}
  /\ files \in [input : InputFiles, qa : {Missing, Present}]
  /\ returned = NotReturned
  /\ synonym_map = get_synonym_map(files.input)
  /\ script \in {"ner", "rel"}
  /\ NormIdle
  /\ GraphIdle
  /\ RelIdle
  /\ DistIdle

\* main.py: synonyms_terminology.py runs first, as a subprocess with
\* check=True; it exits with status 1 when INPUT_FILE is absent and otherwise
\* saves the cleaned document, which is the QA_FILE of the graph scripts
RunWorkflow ==
  /\ pc = "main.py"
  /\ IF exists(files.input)
     THEN /\ files' = [files EXCEPT !.qa = Present]
          /\ pc' = "script"
     ELSE /\ files' = files
          /\ pc' = "exit"
  /\ UNCHANGED <<qa_vars, kg_vars, returned, dist_vars, synonym_map, norm_vars, rel_vars, graph_vars>>

\* __main__ of a graph script: exit(1) when QA_FILE is absent, otherwise load
\* qa_list and call the builder
Main ==
  /\ pc = "script"
  /\ pc' = IF exists(files.qa) THEN "loop" ELSE "exit"
  /\ UNCHANGED <<qa_vars, kg_vars, run_vars, dist_vars, synonym_map, norm_vars, rel_vars, graph_vars>>

\* nlp(...) or extract_entities raises for the next unit: nothing in the
\* builder catches it, the exception leaves the builder and ends the script
ExtractFails ==
  /\ pc = "loop"
  /\ idx < MaxUnits
  /\ pc' = "aborted"
  /\ UNCHANGED <<qa_vars, kg_vars, run_vars, dist_vars, synonym_map, norm_vars, rel_vars, graph_vars>>

\* for idx, (q, a) in enumerate(qa_list, start=1): extract, deduplicate and
\* normalize the mentions of the next unit
ExtractUnit ==
  /\ pc = "loop"
  /\ idx < MaxUnits
  /\ \E u \in Units : \E lst \in Orderings(extract_entities(u)) :
       LET deduped == dedupe(lst)
           normed == [k \in 1..Len(deduped) |->
                        normalize_entity(synonym_map, deduped[k].text)]
       IN /\ unit' = u
          /\ ents_raw' = lst
          /\ ents' = deduped
          /\ ents_norm' = normed
          /\ all_entities' = all_entities \cup { normed[k] : k \in 1..Len(normed) }
          /\ extracted' = extracted \cup { normed[k] : k \in 1..Len(normed) }
  /\ idx' = idx + 1
  /\ log' = <<>>
  /\ pc' = IF script = "ner" THEN "ner_edges" ELSE "rel_strong"
  /\ UNCHANGED <<qa_vars, kg_vars, run_vars, dist_vars, synonym_map, norm_vars, rel_vars, script, G, cluster_colors>>

\* build_graph: the double loop over the mentions of the unit
NerEdges ==
  /\ pc = "ner_edges"
  /\ log' = ner_edges(unit, ents, ents_norm, idx)
  /\ G' = add_edges(G, FALSE, log')
  /\ ents_raw' = <<>>
  /\ pc' = "end"
  /\ UNCHANGED <<qa_vars, kg_vars, run_vars, dist_vars, synonym_map, norm_vars, rel_vars, script, idx, unit, ents, ents_norm,
                 all_entities, cluster_colors, extracted>>

\* build_graph_with_relations: the loop over doc.sents
RelStrong ==
  /\ pc = "rel_strong"
  /\ log' = strong_edges(synonym_map, unit)
  /\ G' = add_edges(G, TRUE, log')
  /\ ents_raw' = <<>>
  /\ pc' = "rel_weak"
  /\ UNCHANGED <<qa_vars, kg_vars, run_vars, dist_vars, synonym_map, norm_vars, rel_vars, script, idx, unit, ents, ents_norm,
                 all_entities, cluster_colors, extracted>>

\* build_graph_with_relations: the double loop over ents_norm
RelWeak ==
  /\ pc = "rel_weak"
  /\ G' = weak_pass(G, ents, ents_norm, combinations(Len(ents_norm)))
  /\ log' = log \o weak_insertions(G, ents, ents_norm,
                                   combinations(Len(ents_norm)))
  /\ pc' = "end"
  /\ UNCHANGED <<qa_vars, kg_vars, run_vars, dist_vars, synonym_map, norm_vars, rel_vars, script, idx, unit, ents_raw,
                 ents, ents_norm, all_entities, cluster_colors, extracted>>

\* end of the loop body: control returns to the for statement, which rebinds
\* every local of the iteration before it is read again
NextIteration ==
  /\ pc = "end"
  /\ pc' = "loop"
  /\ unit' = NoUnit /\ ents' = <<>> /\ ents_norm' = <<>> /\ log' = <<>>
  /\ UNCHANGED <<qa_vars, kg_vars, run_vars, dist_vars, synonym_map, norm_vars, rel_vars, script, idx, ents_raw,
                 all_entities, G, cluster_colors, extracted>>

\* variant: the loop over all_entities is left out
add_orphans_skipped(graph, entities) == graph

\* after the loop: add the orphan nodes
add_orphans(graph, entities) ==
  [graph EXCEPT !.nodes = @ \cup entities]

\* list(G.edges()) of the undirected graph, and the (e1, label, e2) list of
\* the directed one
edge_list(graph, directed) ==
  IF directed
  THEN { <<p[1], graph.adj[p], p[2]>> : p \in DOMAIN graph.adj }
  ELSE { {p[1], p[2]} : p \in DOMAIN graph.adj }

\* after the loop: orphans, components, one random colour per component
Finish ==
  /\ pc = "loop"
  /\ LET G1 == add_orphans(G, all_entities)
         components == connected_components(G1)
     IN /\ G' = G1
        /\ \E color \in [components -> Colours] :
             cluster_colors' =
               [node \in G1.nodes |->
                  color[CHOOSE comp \in components : node \in comp]]
  /\ returned' = [net |-> cluster_colors',
                   edges |-> edge_list(G', script = "rel")]
  /\ pc' = "done"
  /\ UNCHANGED <<qa_vars, kg_vars, files, dist_vars, synonym_map, norm_vars, rel_vars, script, idx, unit,
                 ents_raw, ents, ents_norm, all_entities, log, extracted>>

Next ==
  \/ RunWorkflow \/ Main \/ ExtractFails
  \/ ExtractUnit \/ NerEdges \/ RelStrong \/ RelWeak \/ NextIteration \/ Finish

Spec == Init /\ [][Next]_vars

(***************************************************************************)
(* extract_relations_in_sentence applied to one sentence of a parse, under *)
(* a pattern table.                                                        *)
(***************************************************************************)
InitRel ==
  /\ KgIdle
  /\ QaIdle
  /\ pc = "classify"
  /\ RunIdle
  /\ synonym_map = EmptyDict
  /\ script = "none"
  /\ patterns \in PatternTables
  /\ relations = <<>>
  /\ unit \in Units
  /\ idx = 0 /\ ents_raw = <<>> /\ ents = <<>> /\ ents_norm = <<>>
  /\ all_entities = {} /\ G = EmptyGraph /\ log = <<>>
  /\ cluster_colors = EmptyDict /\ extracted = {}
  /\ NormIdle
  /\ DistIdle

\* idx records the sentence the function was applied to
ClassifySentence ==
  /\ pc = "classify"
  /\ \E k \in 1..Len(sents(unit)) :
       /\ relations' = extract_relations_in_sentence(patterns, unit, sents(unit)[k])
       /\ idx' = sents(unit)[k]
  /\ pc' = "classified"
  /\ UNCHANGED <<qa_vars, kg_vars, run_vars, dist_vars, synonym_map, norm_vars, patterns, script, unit, ents_raw, ents,
                 ents_norm, all_entities, G, log, cluster_colors, extracted>>

NextRel == ClassifySentence

SpecRel == InitRel /\ [][NextRel]_vars

(***************************************************************************)
(* Tests/KG.py: wikidata_lookup and the loop of build_rdf_graph.           *)
(***************************************************************************)
\* JSON values: [t |-> "dict", items |-> function of keys], [t |-> "list",
\* items |-> sequence], [t |-> "str", v |-> string], [t |-> "null"]
JDict(items) == [t |-> "dict", items |-> items]

JList(items) == [t |-> "list", items |-> items]

JStr(v) == [t |-> "str", v |-> v]

JNull == [t |-> "null"]

Returns(v) == [raised |-> "", value |-> v]

Raised(exc) == [raised |-> exc, value |-> JNull]

\* bool(x)
truthy(x) ==
  CASE x.t = "dict" -> DOMAIN x.items # {}
    [] x.t = "list" -> x.items # <<>>
    [] x.t = "str"  -> x.v # ""
    [] OTHER        -> FALSE

\* data.get("search", [])
get_search(data) ==
  IF data.t # "dict" THEN Raised("AttributeError")
  ELSE IF "search" \in DOMAIN data.items THEN Returns(data.items["search"])
  ELSE Returns(JList(<<>>))

\* results[0], for results that are truthy
first_of(found) ==
  CASE found.t = "list" -> Returns(found.items[1])
    [] found.t = "str"  -> Returns(JStr("c"))
    [] OTHER              -> Raised("KeyError")

\* x['id']
id_of(x) ==
  IF x.t = "dict"
  THEN IF "id" \in DOMAIN x.items THEN Returns(x.items["id"])
       ELSE Raised("KeyError")
  ELSE Raised("TypeError")

\* the body of the try block after r.json()
search_result(data) ==
  LET found == get_search(data)
  IN IF found.raised # "" THEN found
     ELSE IF ~truthy(found.value) THEN Returns(JNull)
     ELSE LET item == first_of(found.value)
          IN IF item.raised # "" THEN item ELSE id_of(item.value)

\* requests.exceptions.RequestException and its subclasses; r.json() raises
\* a ValueError for a body that is not JSON
RequestExceptions == { "ConnectionError", "Timeout", "HTTPError" }

wikidata_lookup(resp) ==
  IF resp.kind \in RequestExceptions THEN Returns(JNull)
  ELSE IF resp.kind = "ValueError" THEN Returns(JNull)
  ELSE search_result(resp.data)

\* what requests.get, raise_for_status and r.json() can produce
Bodies ==
  { JDict([k \in {"search"} |-> JList(<< JDict([f \in {"id"} |-> JStr("Q11660")]) >>)]),
    JDict([k \in {"search"} |-> JList(<<>>)]),
    JDict([k \in {"error"} |-> JStr("bad request")]),
    JDict([k \in {"search"} |-> JNull]),
    JDict([k \in {"search"} |-> JList(<< JDict([f \in {"label"} |-> JStr("AI")]) >>)]),
    JDict([k \in {"search"} |-> JStr("none")]),
    JList(<<>>),
    JNull }

Responses ==
  { [kind |-> k, data |-> JNull] : k \in RequestExceptions \cup {"ValueError"} }
  \cup { [kind |-> "json", data |-> d] : d \in Bodies }

ObjectAI == <<"A","I">>

ObjectDataSet == <<"d","a","t","a"," ","s","e","t">>

ObjectGDPR == <<"G","D","P","R">>

Objects == { ObjectAI, ObjectDataSet, ObjectGDPR }

TripleLists ==
  UNION { [1..n -> Objects] : n \in 0..MaxTriples }

Literal(o) == [literal |-> o]

URIRef(id) == [uri |-> id]

InitKg ==
  /\ pc = "rdf_loop"
  /\ triples \in TripleLists
  /\ g = {}
  /\ response = NoResponse
  /\ synonym_map = EmptyDict
  /\ script = "none"
  /\ GraphIdle
  /\ NormIdle
  /\ RelIdle
  /\ DistIdle
  /\ RunIdle
  /\ QaIdle

\* one iteration of for s, p, o in triples
AddTriple ==
  /\ pc = "rdf_loop"
  /\ triples # <<>>
  /\ LET o == Head(triples)
     IN IF \E k \in 1..Len(o) : o[k] = " "
        THEN /\ g' = g \cup { Literal(o) }
             /\ response' = NoResponse
             /\ triples' = Tail(triples)
             /\ pc' = "rdf_loop"
        ELSE \E resp \in Responses :
               LET o_wikidata == wikidata_lookup(resp)
               IN /\ response' = resp
                  /\ IF o_wikidata.raised # ""
                     THEN /\ pc' = "rdf_raised"
                          /\ UNCHANGED <<triples, g>>
                     ELSE /\ g' = g \cup { IF truthy(o_wikidata.value)
                                            THEN URIRef(o_wikidata.value)
                                            ELSE Literal(o) }
                          /\ triples' = Tail(triples)
                          /\ pc' = "rdf_loop"
  /\ UNCHANGED <<qa_vars, synonym_map, norm_vars, rel_vars, graph_vars, dist_vars,
                 run_vars>>

\* g.serialize(...) and the CSV files, after the loop
Serialize ==
  /\ pc = "rdf_loop"
  /\ triples = <<>>
  /\ pc' = "rdf_done"
  /\ UNCHANGED <<qa_vars, kg_vars, synonym_map, norm_vars, rel_vars, graph_vars, dist_vars,
                 run_vars>>

NextKg == AddTriple \/ Serialize

SpecKg == InitKg /\ [][NextKg]_vars

(***************************************************************************)
(* load_qa_from_docx applied to a document.                                *)
(***************************************************************************)
InitQa ==
  /\ pc = "read"
  /\ paragraphs \in Documents
  /\ paras = <<>> /\ pos = 0 /\ current_q = NoQuestion /\ qa_list = <<>>
  /\ synonym_map = EmptyDict
  /\ script = "none"
  /\ GraphIdle
  /\ NormIdle
  /\ RelIdle
  /\ DistIdle
  /\ RunIdle
  /\ KgIdle

\* paras, has_labels and the choice of the branch
ReadParagraphs ==
  /\ pc = "read"
  /\ paras' = stripped_paragraphs(paragraphs)
  /\ pc' = IF has_labels(paras') THEN "labelled" ELSE "unlabelled"
  /\ UNCHANGED <<paragraphs, pos, current_q, qa_list, kg_vars, synonym_map,
                 norm_vars, rel_vars, graph_vars, dist_vars, run_vars>>

\* one iteration of for text in paras
ScanParagraph ==
  /\ pc = "labelled"
  /\ pos < Len(paras)
  /\ LET after == scan(current_q, qa_list, paras[pos + 1])
     IN /\ current_q' = after.current_q
        /\ qa_list' = after.qa_list
  /\ pos' = pos + 1
  /\ UNCHANGED <<pc, paragraphs, paras, kg_vars, synonym_map, norm_vars, rel_vars,
                 graph_vars, dist_vars, run_vars>>

\* the else branch: consecutive paragraphs are paired two by two
PairAlternating ==
  /\ pc = "unlabelled"
  /\ pos = 0
  /\ qa_list' = alternate(paras)
  /\ pos' = Len(paras)
  /\ pc' = "loaded"
  /\ UNCHANGED <<paragraphs, paras, current_q, kg_vars, synonym_map, norm_vars,
                 rel_vars, graph_vars, dist_vars, run_vars>>

\* return qa_list
ReturnQaList ==
  /\ pc = "labelled"
  /\ pos = Len(paras)
  /\ pc' = "loaded"
  /\ UNCHANGED <<qa_vars, kg_vars, synonym_map, norm_vars, rel_vars, graph_vars,
                 dist_vars, run_vars>>

NextQa == ReadParagraphs \/ ScanParagraph \/ PairAlternating \/ ReturnQaList

SpecQa == InitQa /\ [][NextQa]_vars

(***************************************************************************)
(* dependency_distance applied to two tokens of one parse.                 *)
(***************************************************************************)
\* the parses of MaxTokens tokens: every token has one head, a sentence root
\* is its own head, and following heads from any token ends at a root
RECURSIVE RootAbove(_, _, _)
RootAbove(heads, t, fuel) ==
  IF heads[t] = t THEN t
  ELSE IF fuel = 0 THEN 0
  ELSE RootAbove(heads, heads[t], fuel - 1)

Parses ==
  { heads \in [1..MaxTokens -> 1..MaxTokens] :
      \A t \in 1..MaxTokens : RootAbove(heads, t, MaxTokens) # 0 }

ParsedUnit(heads) ==
  [head |-> heads,
   sent |-> [t \in 1..MaxTokens |-> RootAbove(heads, t, MaxTokens)],
   lemma |-> [t \in 1..MaxTokens |-> LemmaStore],
   ents |-> <<>>, gazetteer |-> <<>>, raises |-> {}]

InitDist ==
  /\ KgIdle
  /\ QaIdle
  /\ pc = "measure"
  /\ RunIdle
  /\ synonym_map = EmptyDict
  /\ script = "none"
  /\ \E heads \in Parses : unit = ParsedUnit(heads)
  /\ endpoints \in (1..MaxTokens) \X (1..MaxTokens)
  /\ distance = None
  /\ idx = 0 /\ ents_raw = <<>> /\ ents = <<>> /\ ents_norm = <<>>
  /\ all_entities = {} /\ G = EmptyGraph /\ log = <<>>
  /\ cluster_colors = EmptyDict /\ extracted = {}
  /\ NormIdle
  /\ RelIdle

MeasureDistance ==
  /\ pc = "measure"
  /\ distance' = dependency_distance(unit, [doc |-> 0, i |-> endpoints[1]],
                                     [doc |-> 0, i |-> endpoints[2]])
  /\ pc' = "measured"
  /\ UNCHANGED <<qa_vars, kg_vars, synonym_map, norm_vars, rel_vars, graph_vars, endpoints,
                 run_vars>>

NextDist == MeasureDistance

SpecDist == InitDist /\ [][NextDist]_vars

(***************************************************************************)
(* Properties of normalize_entity.                                         *)
(***************************************************************************)
\* C6: the result of normalize_entity is the synonym of lower-case(u) when
\* the map has one and u itself otherwise, where t is the input without its
\* surrounding whitespace and u is t without one leading "the " (any case).
IsSpaces(s) == \A i \in 1..Len(s) : s[i] \in Whitespace

IsTrimOf(t, s) ==
  /\ \E i \in 0..Len(s) : \E j \in i..Len(s) :
        /\ t = SubSeq(s, i + 1, j)
        /\ IsSpaces(SubSeq(s, 1, i))
        /\ IsSpaces(SubSeq(s, j + 1, Len(s)))
  /\ t # <<>> => (t[1] \notin Whitespace /\ t[Len(t)] \notin Whitespace)

HasArticle(t) ==
  /\ Len(t) >= 4
  /\ t[1] \in {"t", "T"} /\ t[2] \in {"h", "H"} /\ t[3] \in {"e", "E"}
  /\ t[4] = " "

ExpectedNormal(map, raw) ==
  LET t == CHOOSE x \in { SubSeq(raw, i, j) : i \in 1..Len(raw) + 1, j \in 0..Len(raw) } :
             IsTrimOf(x, raw)
      u == IF HasArticle(t) THEN [i \in 1..Len(t) - 4 |-> t[i + 4]] ELSE t
  IN IF lower(u) \in DOMAIN map THEN map[lower(u)] ELSE u

C6_NormalizeResult ==
  (pc = "normalize" /\ Len(results) >= 1) =>
     /\ results[1] = ExpectedNormal(synonym_map, ent_text)
     /\ DOMAIN results[1] = 1..Len(results[1])

\* surrounding whitespace, an article in mixed case and a synonym
C6_Witness ==
  /\ pc = "normalize" /\ Len(results) >= 1
  /\ ent_text = <<" ", "T", "h", "E", " ", "u", "s">>
  /\ results[1] = <<"U", "S", "A">>

\* C7 as stated: normalize(normalize(x)) = normalize(x).
C7_Idempotent ==
  (pc = "normalize" /\ Len(results) = 2) => results[2] = results[1]

(***************************************************************************)
(* Properties of the graph builders.                                       *)
(***************************************************************************)
Label(text) == normalize_entity(synonym_map, text)

Touches(n) == \E p \in DOMAIN G.adj : p[1] = n \/ p[2] = n

PairsOf(n) == { p \in (1..n) \X (1..n) : p[1] < p[2] }

\* C1: after all units are processed, the normalized label of every
\* deduplicated mention extracted from any unit is a node of the final graph,
\* also when it is an endpoint of no edge (both builders).
C1_OrphanRetention ==
  pc = "done" => \A label \in extracted : label \in G.nodes

C1_Witness ==
  /\ pc = "done"
  /\ idx = MaxUnits
  /\ \E label \in extracted : label \in G.nodes /\ ~Touches(label)

\* C2: directed builder: an edge that exists is never relabelled co_occurs;
\* in particular an edge carrying a relation label of the classifier keeps a
\* label other than co_occurs through every later pass and unit.
RelationKinds == { "is_a", "regulates", "uses", "based_on", "part_of" }

C2_VerbEdgeKept ==
  [][script = "rel" =>
       \A p \in DOMAIN G.adj :
          /\ p \in DOMAIN G'.adj
          /\ G'.adj[p] = "co_occurs" => G.adj[p] = "co_occurs"
          /\ G.adj[p] \in RelationKinds => G'.adj[p] \in RelationKinds]_vars

\* the co-occurrence pass has met a cross-sentence pair that carries a verb edge
C2_Witness ==
  /\ script = "rel" /\ pc = "end"
  /\ \E p \in PairsOf(Len(ents)) :
        /\ SentOf(ents[p[1]]) # SentOf(ents[p[2]])
        /\ has_edge(G, ents_norm[p[1]], ents_norm[p[2]])
        /\ G.adj[<<ents_norm[p[1]], ents_norm[p[2]]>>] \in RelationKinds

\* C3: undirected builder: for a pair of deduplicated mentions in the same
\* sentence an edge tagged Strong is inserted iff the dependency distance of
\* their roots is defined and at most 3 (inserted at 3, not at 4 or None).
StrongFor(p) ==
  \E k \in 1..Len(log) : log[k].pair = p /\ log[k].attr[1] = "Strong"

InsertedFor(p) == \E k \in 1..Len(log) : log[k].pair = p

RootDistance(p) ==
  dependency_distance(unit, RootOf(ents[p[1]]), RootOf(ents[p[2]]))

C3_Threshold ==
  (script = "ner" /\ pc = "end") =>
    \A p \in PairsOf(Len(ents)) :
       SentOf(ents[p[1]]) = SentOf(ents[p[2]]) =>
         /\ StrongFor(p) <=> RootDistance(p) \in 0..3
         /\ RootDistance(p) \notin 0..3 => ~InsertedFor(p)
         /\ RootDistance(p) \in 0..3 => has_edge(G, ents_norm[p[1]], ents_norm[p[2]])

C3_Witness ==
  /\ script = "ner" /\ pc = "end"
  /\ \E p \in PairsOf(Len(ents)) :
        /\ SentOf(ents[p[1]]) = SentOf(ents[p[2]])
        /\ RootDistance(p) = 3 /\ StrongFor(p)
  /\ \E p \in PairsOf(Len(ents)) :
        /\ SentOf(ents[p[1]]) = SentOf(ents[p[2]])
        /\ RootDistance(p) = 4 /\ ~InsertedFor(p)

\* C4: undirected builder: for every pair of deduplicated mentions of the
\* unit in different sentences an edge tagged Weak is inserted between their
\* labels, whatever their distance, and the graph has that edge afterwards.
WeakFor(p) ==
  \E k \in 1..Len(log) :
     /\ log[k].pair = p /\ log[k].attr[1] = "Weak"
     /\ log[k].u = ents_norm[p[1]] /\ log[k].v = ents_norm[p[2]]

C4_CrossSentenceWeak ==
  (script = "ner" /\ pc = "end") =>
    \A p \in PairsOf(Len(ents)) :
       SentOf(ents[p[1]]) # SentOf(ents[p[2]]) =>
         /\ WeakFor(p)
         /\ has_edge(G, ents_norm[p[1]], ents_norm[p[2]])
         /\ has_edge(G, ents_norm[p[2]], ents_norm[p[1]])

\* a cross-sentence pair whose roots no path joins
C4_Witness ==
  /\ script = "ner" /\ pc = "end"
  /\ \E p \in PairsOf(Len(ents)) :
        /\ SentOf(ents[p[1]]) # SentOf(ents[p[2]])
        /\ RootDistance(p) = None
        /\ WeakFor(p)

\* C5 as stated: two nodes have the same colour iff they lie in the same
\* (weakly) connected component.
Linked(a, b) == has_edge(G, a, b) \/ has_edge(G, b, a)

Connected(a, b) ==
  \E n \in 1..Cardinality(G.nodes) : \E path \in [1..n -> G.nodes] :
     /\ path[1] = a /\ path[n] = b
     /\ \A i \in 1..(n - 1) : Linked(path[i], path[i + 1])

C5_SameColourIffConnected ==
  pc = "done" =>
    /\ DOMAIN cluster_colors = G.nodes
    /\ \A a, b \in G.nodes :
          cluster_colors[a] = cluster_colors[b] <=> Connected(a, b)

\* C5 amended: every node has exactly one colour and two nodes of the same
\* (weakly) connected component have the same colour; the colours of distinct
\* components are drawn independently and may coincide.
C5_ComponentsUniformlyColoured ==
  pc = "done" =>
    /\ DOMAIN cluster_colors = G.nodes
    /\ \A a \in G.nodes : cluster_colors[a] \in Colours
    /\ \A a, b \in G.nodes :
          Connected(a, b) => cluster_colors[a] = cluster_colors[b]

C5_Witness ==
  /\ pc = "done"
  /\ \E a, b, c \in G.nodes :
        /\ a # b /\ Connected(a, b) /\ ~Connected(a, c)
        /\ cluster_colors[a] = cluster_colors[b]

\* C8 as stated: of the mentions of a unit with the same trimmed text, the
\* one kept is the first of the extracted list.
SameText(m1, m2) == strip(m1.text) = strip(m2.text)

Extracting == pc \in {"ner_edges", "rel_strong"}

OneSurvivorPerText ==
  /\ \A i \in 1..Len(ents_raw) :
        Cardinality({ k \in 1..Len(ents) : SameText(ents[k], ents_raw[i]) }) = 1
  /\ \A k \in 1..Len(ents) : \E i \in 1..Len(ents_raw) : ents[k] = ents_raw[i]

C8_FirstOccurrenceWins ==
  Extracting =>
    /\ OneSurvivorPerText
    /\ \A k \in 1..Len(ents) : \E i \in 1..Len(ents_raw) :
          /\ ents[k] = ents_raw[i]
          /\ \A j \in 1..(i - 1) : ~SameText(ents_raw[j], ents_raw[i])

\* C8 amended: exactly one mention per trimmed text is kept, and it is the
\* last such mention of the extracted list (at the list position of the first
\* mention with that text), so the sentence and root token used afterwards
\* are those of the last mention.
C8_LastOccurrenceWins ==
  Extracting =>
    /\ OneSurvivorPerText
    /\ \A k \in 1..Len(ents) : \E i \in 1..Len(ents_raw) :
          /\ ents[k] = ents_raw[i]
          /\ \A j \in (i + 1)..Len(ents_raw) : ~SameText(ents_raw[j], ents_raw[i])
    /\ \A k1, k2 \in 1..Len(ents) :
          k1 < k2 =>
            \E i1 \in 1..Len(ents_raw) :
               /\ SameText(ents_raw[i1], ents[k1])
               /\ \A i2 \in 1..Len(ents_raw) :
                     SameText(ents_raw[i2], ents[k2]) => i1 < i2

\* two mentions with the same text, in different sentences
C8_Witness ==
  /\ Extracting
  /\ \E i, j \in 1..Len(ents_raw) :
        /\ i < j /\ SameText(ents_raw[i], ents_raw[j])
        /\ SentOf(ents_raw[i]) # SentOf(ents_raw[j])
        /\ \E k \in 1..Len(ents) : ents[k] = ents_raw[j]

\* C10: directed builder: the same-sentence pass of a unit inserts exactly
\* the edges label(e1) -> label(e2) labelled k, for every sentence, every
\* token of it whose lemma is a trigger of kind k and every pair e1 before
\* e2 of entities of the sentence whose roots are at a distance of at most 3.
KindsOf(table, lemma) ==
  { table[k][1] : k \in { x \in 1..Len(table) : lower(lemma) \in table[x][2] } }

EntityPairs(s) ==
  { p \in PairsOf(Len(unit.ents)) :
      /\ unit.sent[unit.ents[p[1]].root] = s
      /\ unit.sent[unit.ents[p[2]].root] = s
      /\ dependency_distance(unit, [doc |-> 0, i |-> unit.ents[p[1]].root],
                                   [doc |-> 0, i |-> unit.ents[p[2]].root]) \in 0..3 }

VerbEdges ==
  UNION { UNION { { <<Label(unit.ents[p[1]].text), kind, Label(unit.ents[p[2]].text)>> :
                       p \in EntityPairs(unit.sent[t]) } :
                  kind \in KindsOf(RELATION_PATTERNS, unit.lemma[t]) } :
          t \in 1..Len(unit.head) }

C10_VerbEdges ==
  (script = "rel" /\ pc = "rel_weak") =>
    /\ { <<log[k].u, log[k].attr, log[k].v>> : k \in 1..Len(log) } = VerbEdges
    /\ \A k \in 1..Len(log) : has_edge(G, log[k].u, log[k].v)

\* a trigger token, one pair within the distance and one pair beyond it
C10_Witness ==
  /\ script = "rel" /\ pc = "rel_weak"
  /\ log # <<>>
  /\ \E p \in PairsOf(Len(unit.ents)) :
        /\ dependency_distance(unit, [doc |-> 0, i |-> unit.ents[p[1]].root],
                                     [doc |-> 0, i |-> unit.ents[p[2]].root]) = 4
        /\ \A k \in 1..Len(log) :
              <<log[k].u, log[k].v>> #
                <<Label(unit.ents[p[1]].text), Label(unit.ents[p[2]].text)>>

(***************************************************************************)
(* Properties of the relation classifier.                                  *)
(***************************************************************************)
\* the relations of the sentence idx if every token emitted, for each pair
\* within the distance, the kinds `kinds` selects from the matching entries
SentencePairs(s) ==
  LET es == SelectSeq(unit.ents, LAMBDA e : unit.sent[e.root] = s)
      ps == SortedSeq({ 10 * p[1] + p[2] : p \in PairsOf(Len(es)) })
  IN SelectSeq([k \in 1..Len(ps) |-> <<es[ps[k] \div 10], es[ps[k] % 10]>>],
               LAMBDA ee : dependency_distance(unit, [doc |-> 0, i |-> ee[1].root],
                                                     [doc |-> 0, i |-> ee[2].root]) \in 0..3)

MatchingKinds(table, lemma) ==
  LET ks == SelectSeq([k \in 1..Len(table) |-> k],
                      LAMBDA k : lower(lemma) \in table[k][2])
  IN [i \in 1..Len(ks) |-> table[ks[i]][1]]

FirstOnly(kinds) == IF kinds = <<>> THEN <<>> ELSE <<kinds[1]>>

AllOf(kinds) == kinds

Expected(s, Select(_)) ==
  LET toks == SortedSeq({ t \in 1..Len(unit.head) : unit.sent[t] = s })
      pairs == SentencePairs(s)
  IN Flatten([t \in 1..Len(toks) |->
       LET kinds == Select(MatchingKinds(patterns, unit.lemma[toks[t]]))
       IN Flatten([k \in 1..Len(kinds) |->
            [q \in 1..Len(pairs) |-> <<pairs[q][1].text, kinds[k], pairs[q][2].text>>]])])

\* C9 as stated: under every pattern table a token yields at most one kind,
\* the kind of the first entry whose trigger set has its lower-cased lemma.
C9_FirstMatchOnly ==
  pc = "classified" => relations = Expected(idx, FirstOnly)

\* C9 amended: a token yields one relation per pair and per table entry whose
\* trigger set has its lower-cased lemma, in declaration order; under
\* RELATION_PATTERNS, whose trigger sets are disjoint, that is at most one
\* kind, the kind of the only matching entry; a lemma in no trigger set
\* yields no relation.
C9_EveryMatchingEntry ==
  pc = "classified" =>
    /\ relations = Expected(idx, AllOf)
    /\ patterns = RELATION_PATTERNS => relations = Expected(idx, FirstOnly)

C9_Witness ==
  /\ pc = "classified"
  /\ patterns = RELATION_PATTERNS
  /\ relations # <<>>
  /\ \E t \in 1..Len(unit.head) :
        unit.sent[t] = idx /\ unit.lemma[t] # lower(unit.lemma[t])

\* C11: at every point of processing the graph holds at most one edge per
\* node pair (unordered in the undirected builder, ordered in the directed
\* one), and after each pass the edge of a pair carries the attribute of the
\* most recent insertion made for that pair; pairs that got no insertion in
\* the pass keep the edge they had.
EdgePasses == { "ner_edges", "rel_strong", "rel_weak" }

KeysOf(ins) ==
  IF script = "rel" THEN { <<ins.u, ins.v>> }
  ELSE { <<ins.u, ins.v>>, <<ins.v, ins.u>> }

C11_LastWriteWins ==
  [][LET new == IF pc \in EdgePasses
                THEN SubSeq(log', Len(log) + 1, Len(log'))
                ELSE <<>>
         Hits(p) == { k \in 1..Len(new) : p \in KeysOf(new[k]) }
         Latest(p) == CHOOSE k \in Hits(p) : \A h \in Hits(p) : h <= k
     IN /\ DOMAIN G'.adj =
             (DOMAIN G.adj) \cup UNION { KeysOf(new[k]) : k \in 1..Len(new) }
        /\ \A p \in DOMAIN G'.adj :
              G'.adj[p] = IF Hits(p) # {} THEN new[Latest(p)].attr
                          ELSE G.adj[p]
        /\ script = "ner" =>
              \A p \in DOMAIN G'.adj : G'.adj[<<p[2], p[1]>>] = G'.adj[p]]_vars

\* one pass has inserted twice for one pair, with two different attributes
C11_Witness ==
  /\ pc \in { "rel_weak", "end" }
  /\ \E k, h \in 1..Len(log) :
        /\ k < h
        /\ log[k].u = log[h].u /\ log[k].v = log[h].v
        /\ log[k].attr # log[h].attr
        /\ G.adj[<<log[h].u, log[h].v>>] = log[h].attr

\* C12: an edge only ever appears between two labels that are both
\* normalized labels of entity mentions of the unit being processed, so every
\* edge of the graph joins two labels whose mentions occur together in one
\* unit; labels that never share a unit are never joined.
UnitLabels(u) ==
  { Label(u.ents[k].text) : k \in 1..Len(u.ents) }
  \cup { Label(u.gazetteer[k].text) : k \in 1..Len(u.gazetteer) }

C12_EdgesInsideUnit ==
  [][\A p \in DOMAIN G'.adj :
        p \notin DOMAIN G.adj =>
          /\ pc \in EdgePasses
          /\ p[1] \in UnitLabels(unit) /\ p[2] \in UnitLabels(unit)]_vars

\* two units were processed; two labels that each carry an edge are not
\* joined to each other
C12_Witness ==
  /\ pc = "done" /\ idx = MaxUnits
  /\ \E a, b \in G.nodes :
        /\ a # b /\ Touches(a) /\ Touches(b)
        /\ ~has_edge(G, a, b) /\ ~has_edge(G, b, a)

\* C13: for two tokens of one parse dependency_distance returns the number
\* of arcs on a shortest path between them, each arc followed in either
\* direction, and None exactly when no path joins them; the distance of a
\* token to itself is 0 and the search ends on every parse.
Arc(heads, a, b) == a # b /\ (heads[a] = b \/ heads[b] = a)

RECURSIVE Within(_, _, _)
Within(heads, a, k) ==
  IF k = 0 THEN {a}
  ELSE LET S == Within(heads, a, k - 1)
       IN S \cup { b \in DOMAIN heads : \E x \in S : Arc(heads, x, b) }

ShortestPath(heads, a, b) ==
  LET ks == { k \in 0..Len(heads) : b \in Within(heads, a, k) }
  IN IF ks = {} THEN None ELSE CHOOSE k \in ks : \A h \in ks : k <= h

C13_Distance ==
  pc = "measured" =>
    distance = ShortestPath(unit.head, endpoints[1], endpoints[2])

\* two siblings: the path climbs one arc and descends one arc
C13_Witness ==
  /\ pc = "measured" /\ distance = 2
  /\ endpoints[1] # endpoints[2]
  /\ unit.head[endpoints[1]] = unit.head[endpoints[2]]

\* C14: undirected builder: when the traversal between two same-sentence
\* mentions fails (a token on the path from the first root to the second
\* raises), the pair is treated as too far apart: no edge is inserted for it,
\* the unit is completed and pairs whose traversal meets no failure get
\* their Strong edge as usual.  A failure of parsing or entity extraction
\* for a unit ends the run: no later step is taken and nothing is returned.
InDoc(p) == ents[p[1]].doc = 0 /\ ents[p[2]].doc = 0

PathLength(p) == ShortestPath(unit.head, ents[p[1]].root, ents[p[2]].root)

\* a raising token lies on the path, before its last token
FailsBetween(p) ==
  \E t \in unit.raises :
     /\ t # ents[p[2]].root
     /\ ShortestPath(unit.head, ents[p[1]].root, t) # None
     /\ ShortestPath(unit.head, t, ents[p[2]].root) # None
     /\ ShortestPath(unit.head, ents[p[1]].root, t)
          + ShortestPath(unit.head, t, ents[p[2]].root) = PathLength(p)

\* no raising token is as near to the first root as the second root is
NoFailureNear(p) ==
  \A t \in unit.raises :
     \/ ShortestPath(unit.head, ents[p[1]].root, t) = None
     \/ ShortestPath(unit.head, ents[p[1]].root, t) > PathLength(p)

TraversalFailures ==
  \A p \in PairsOf(Len(ents)) :
     (InDoc(p) /\ SentOf(ents[p[1]]) = SentOf(ents[p[2]])) =>
       /\ FailsBetween(p) => ~InsertedFor(p)
       /\ (NoFailureNear(p) /\ PathLength(p) \in 0..MAX_DEP_DISTANCE)
            => StrongFor(p)

C14_OracleFailures ==
  [][/\ pc # "aborted"
     /\ pc' = "aborted" => returned' = NotReturned
     /\ (script = "ner" /\ pc = "end") => TraversalFailures]_vars

\* a unit was completed in which one traversal failed and another succeeded
C14_Witness ==
  /\ script = "ner" /\ pc = "end"
  /\ \E p \in PairsOf(Len(ents)) :
        InDoc(p) /\ FailsBetween(p) /\ ~InsertedFor(p)
  /\ \E p \in PairsOf(Len(ents)) :
        InDoc(p) /\ unit.raises # {} /\ NoFailureNear(p) /\ StrongFor(p)

\* C15: when an input document of the run is absent (the Q&A document of the
\* graph script, or the source document of the synonym map) the run stops
\* before any graph work: the builder is not entered, no unit is processed
\* and nothing is returned or written.
NoGraphWork ==
  /\ pc \in { "main.py", "script", "exit" }
  /\ idx = 0 /\ G = EmptyGraph /\ returned = NotReturned

C15_MissingInputFatal ==
  (script \in {"ner", "rel"} /\ (~exists(files.input) \/ ~exists(files.qa)))
    => NoGraphWork

\* C17: every key of the synonym map that normalize_entity consults is a
\* lower-cased string.
C17_LowerCaseKeys ==
  pc = "normalize" => \A key \in DOMAIN synonym_map : key = lower(key)

\* C18: no edge of the graph joins a label to itself, in either builder.
C18_NoSelfLoops ==
  script \in {"ner", "rel"} => \A p \in DOMAIN G.adj : p[1] # p[2]

\* C19: directed builder: every node and every edge endpoint is the
\* normalized label of a mention that passed extraction (allow-listed kind
\* or gazetteer match) in some unit.
C19_NodesWereExtracted ==
  script = "rel" =>
    /\ G.nodes \subseteq extracted
    /\ \A p \in DOMAIN G.adj : p[1] \in extracted /\ p[2] \in extracted

\* C16: whatever the Wikidata request produces (connection error, timeout,
\* HTTP error status, a body that is not JSON, a JSON body without the
\* search/id structure), wikidata_lookup returns None and does not raise:
\* build_rdf_graph is never left by an exception.
C16_LookupNeverRaises == pc # "rdf_raised"

\* C20: for fixed units and oracle answers the graph a builder produces does
\* not depend on the order in which extract_entities lists the entity set of
\* a unit: processing the unit in progress from the present graph gives the
\* same nodes, edges and edge attributes for every enumeration of its set.
UnitGraph(lst) ==
  LET deduped == dedupe(lst)
      normed == [k \in 1..Len(deduped) |->
                   normalize_entity(synonym_map, deduped[k].text)]
  IN IF script = "ner"
     THEN add_edges(G, FALSE, ner_edges(unit, deduped, normed, idx))
     ELSE weak_pass(add_edges(G, TRUE, strong_edges(synonym_map, unit)),
                    deduped, normed, combinations(Len(normed)))

C20_OrderIndependent ==
  pc \in { "ner_edges", "rel_strong" } =>
    \A lst \in Orderings(extract_entities(unit)) :
       UnitGraph(lst) = UnitGraph(ents_raw)

\* C21: labelled mode of load_qa_from_docx: after any number of paragraphs
\* has been scanned, qa_list holds, in document order, one pair for every
\* scanned answer paragraph whose nearest earlier labelled paragraph is a
\* question, made of that question and the answer; nothing else is emitted
\* (an answer with no pending question, a question followed by another
\* question, an unlabelled paragraph), no question paragraph is used twice,
\* and the pending question is the last question not yet answered.
Labelled(k) == is_question(paras[k]) \/ is_answer(paras[k])

\* position of the nearest labelled paragraph before position k, or 0
LastLabelledBefore(k) ==
  LET before == { h \in 1..(k - 1) : Labelled(h) }
  IN IF before = {} THEN 0 ELSE CHOOSE h \in before : \A x \in before : x <= h

Emitting(k) ==
  /\ ~is_question(paras[k]) /\ is_answer(paras[k])
  /\ LastLabelledBefore(k) # 0
  /\ is_question(paras[LastLabelledBefore(k)])

EmittingUpTo(n) == SortedSeq({ k \in 1..n : Emitting(k) })

=============================================================================
